---- MODULE Spec2Model ----
(***************************************************************************)
(* A model of dummycdd.c, a Linux character device driver: the module      *)
(* lifecycle (dummycdd_init, dummycdd_exit) against the kernel's resource  *)
(* registry, and the file operations dev_open, dev_write and dev_release.  *)
(*                                                                         *)
(* Pointers are integers as in the kernel: NULL is 0, ERR_PTR(e) is the    *)
(* negative errno e, a valid object address is positive.                   *)
(***************************************************************************)
EXTENDS Integers, Sequences, FiniteSets, TLC

(***************************************************************************)
(* Bounds of the model.                                                    *)
(***************************************************************************)
\* sizeof(message), scaled down from 256: every formula is stated for a
\* capacity C, and 2C+5 must leave a short third chunk (C > 5).
MessageSize == 6
\* how many times the module is loaded (insmod) in one behaviour
MaxLoads == 2
\* how many open calls are made per load
MaxOpens == 3
\* how many write calls are made per load
MaxWrites == 2
\* how many bytes past the end of message[] a "%s" with no NUL may read
MaxOverrun == 1

\* the longest write: the 2C+5 of the chunking test
MaxLen == 2 * MessageSize + 5

(***************************************************************************)
(* Small helpers.                                                          *)
(***************************************************************************)
Min(a, b) == IF a < b THEN a ELSE b

Max(a, b) == IF a > b THEN a ELSE b

\* INT_MAX of a 32-bit int
INT_MAX == 2147483647

\* v + 1 in a C int: the kernel builds with -fno-strict-overflow, so it wraps
IntInc(v) == IF v = INT_MAX THEN (-INT_MAX) - 1 ELSE v + 1

(***************************************************************************)
(* Inputs.                                                                 *)
(***************************************************************************)
\* values of the module parameter id
Ids == {1, 42, 0, -7, 2147483647}

\* major numbers register_chrdev(0, ...) may hand out
Majors == {254, 253}

\* errnos the three registration calls may fail with: -ENOMEM, -EBUSY, -EEXIST
RegisterErrors == {-12, -16}

ClassErrors == {-12, -17}

DeviceErrors == {-12, -17}

\* addresses class_create and device_create may return
ClassPtrs == {4096}

DevicePtrs == {8192}

\* execution contexts that call the file operations
Threads == {1, 2}

\* user buffers: a buffer with base b holds the byte b + (k % 26) at offset k
\* ('a'.. and 'A'..), so that a byte tells where it was copied from
Sources == {97, 65}

VARIABLES
  mod,          \* position of the module lifecycle (init / live / exit)
  id,           \* static int id: the module parameter
  device_name,  \* static char device_name[32]: the C string it holds
  majorNumber,  \* static int majorNumber
  dummyClass,   \* static struct class* dummyClass
  dummyDevice,  \* static struct device* dummyDevice
  numberOpens,  \* static int numberOpens
  message,      \* static char message[sizeof]: offset -> byte
  ret,          \* what dummycdd_init returned
  kern,         \* the kernel's registry: live chrdevs, classes, devices
  calls,        \* the registration calls this load made to the kernel, in order
  ctx,          \* per execution context: the file operation in progress, its locals
  files,        \* how many open files refer to the device
  reported,     \* the counts dev_open's printk reported, in order
  loads,        \* how many times the module was loaded
  writes        \* how many write calls this load

vars == <<mod, id, device_name, majorNumber, dummyClass, dummyDevice, numberOpens,
          message, ret, kern, calls, ctx, files, reported, loads, writes>>

statics == <<id, device_name, majorNumber, dummyClass, dummyDevice, numberOpens, message>>

(***************************************************************************)
(* Kernel helpers used by the driver.                                      *)
(***************************************************************************)
\* IS_ERR(ptr): the top MAX_ERRNO addresses are errnos
IS_ERR(p) == p < 0 /\ p >= -4095

\* an errno lost on the way out
PTR_ERR_Lost(p) == 0

PTR_ERR(p) == p

MKDEV(ma, mi) == ma * 1048576 + mi

\* sizeof(device_name)
NameCapacity == 32

\* a longer base name
DEVICE_NAME_Long == <<"d", "u", "m", "m", "y", "_", "c", "h", "a", "r", "_", "d", "e", "v",
                      "_", "d", "r", "i", "v", "e", "r", "_">>

\* DEVICE_NAME, the base name
DEVICE_NAME == <<"d", "u", "m", "m", "y", "c", "d", "d">>

Digit(d) == CASE d = 0 -> "0" [] d = 1 -> "1" [] d = 2 -> "2" [] d = 3 -> "3"
              [] d = 4 -> "4" [] d = 5 -> "5" [] d = 6 -> "6" [] d = 7 -> "7"
              [] d = 8 -> "8" [] d = 9 -> "9"

RECURSIVE Digits(_)
\* the decimal digits of n >= 0, most significant first
Digits(n) == IF n < 10 THEN <<Digit(n)>> ELSE Append(Digits(n \div 10), Digit(n % 10))

\* the decimal digits of the magnitude of v < 0, taken digit by digit so that
\* INT_MIN, whose magnitude is no int, is formatted too
NegDigits(v) ==
  LET d == (10 - (v % 10)) % 10
      rest == (-(v + d)) \div 10
  IN IF rest = 0 THEN <<Digit(d)>> ELSE Append(Digits(rest), Digit(d))

\* a "%d" that loses the sign
FormatIntUnsigned(v) == IF v < 0 THEN NegDigits(v) ELSE Digits(v)

\* what "%d" prints for an int
FormatInt(v) == IF v < 0 THEN <<"-">> \o NegDigits(v) ELSE Digits(v)

\* sprintf(device_name, DEVICE_NAME"%d", id)
Sprintf_name(v) == DEVICE_NAME \o FormatInt(v)

\* message[] as static initialisation leaves it: all zero
ZeroMessage == [j \in 0..(MessageSize - 1) |-> 0]

\* nothing printed by dev_write's loop yet
NoEmit == [k |-> -1, off |-> 0, n |-> 0, text |-> <<>>, over |-> 0]

\* an execution context that is in no file operation
IdleCtx == [pc |-> "idle", len |-> 0, buffer |-> 0, valid |-> 0, i |-> 0,
            remainder |-> 0, n |-> 0, chunks |-> 0, out |-> NoEmit, reg |-> 0, ret |-> 0]

NoKern == [chrdevs |-> {}, classes |-> {}, devices |-> {}]

(***************************************************************************)
(* The kernel's registration interface, as the driver uses it.  A state s  *)
(* is [kern, calls]; every call is appended to calls, a release with       *)
(* whether its target was live when it was made.                           *)
(***************************************************************************)
Call(f, a, r, l) == [fn |-> f, arg |-> a, res |-> r, live |-> l]

\* register_chrdev(0, name, &fops) returning r: a free major, or an errno
KRegisterChrdev(s, r) ==
  [kern |-> IF r < 0 THEN s.kern ELSE [s.kern EXCEPT !.chrdevs = @ \cup {r}],
   calls |-> Append(s.calls, Call("register_chrdev", 0, r, FALSE))]

\* unregister_chrdev(major, name)
KUnregisterChrdev(s, major) ==
  [kern |-> [s.kern EXCEPT !.chrdevs = @ \ {major}],
   calls |-> Append(s.calls, Call("unregister_chrdev", major, 0, major \in s.kern.chrdevs))]

\* class_create(THIS_MODULE, CLASS_NAME) returning r: an address, or ERR_PTR
KClassCreate(s, r) ==
  [kern |-> IF IS_ERR(r) THEN s.kern ELSE [s.kern EXCEPT !.classes = @ \cup {r}],
   calls |-> Append(s.calls, Call("class_create", 0, r, FALSE))]

\* class_unregister(cls): drops the class; class_create's release frees it
KClassUnregister(s, cls) ==
  [kern |-> [s.kern EXCEPT !.classes = @ \ {cls}],
   calls |-> Append(s.calls, Call("class_unregister", cls, 0, cls \in s.kern.classes))]

\* class_destroy(cls): nothing for NULL or an ERR_PTR, else class_unregister(cls)
KClassDestroy(s, cls) ==
  IF cls = 0 \/ IS_ERR(cls) THEN s ELSE KClassUnregister(s, cls)

\* device_create(cls, NULL, devt, NULL, name) returning r
KDeviceCreate(s, cls, devt, r) ==
  [kern |-> IF IS_ERR(r) THEN s.kern
            ELSE [s.kern EXCEPT !.devices = @ \cup {[ptr |-> r, cls |-> cls, devt |-> devt]}],
   calls |-> Append(s.calls, Call("device_create", devt, r, FALSE))]

\* device_destroy(cls, devt): unregisters the device of that class and number
KDeviceDestroy(s, cls, devt) ==
  [kern |-> [s.kern EXCEPT !.devices = {d \in @ : ~(d.cls = cls /\ d.devt = devt)}],
   calls |-> Append(s.calls, Call("device_destroy", devt, 0,
                                  \E d \in s.kern.devices : d.cls = cls /\ d.devt = devt))]

Here == [kern |-> kern, calls |-> calls]

Idle == \A t \in Threads : ctx[t].pc = "idle"

(***************************************************************************)
(* Module load and dummycdd_init.                                          *)
(***************************************************************************)
\* insmod with id=v: the module's statics take their initial values
Load(v) ==
  /\ mod \in {"unloaded", "failed", "exited"}
  /\ loads < MaxLoads
  /\ loads' = loads + 1
  /\ id' = v
  /\ device_name' = <<>>
  /\ majorNumber' = 0
  /\ dummyClass' = 0
  /\ dummyDevice' = 0
  /\ numberOpens' = 0
  /\ message' = ZeroMessage
  /\ ret' = 0
  /\ calls' = <<>>
  /\ reported' = <<>>
  /\ writes' = 0
  /\ mod' = "sprintf"
  /\ UNCHANGED <<kern, ctx, files>>

InitSprintf ==
  /\ mod = "sprintf"
  /\ device_name' = Sprintf_name(id)
  /\ mod' = "register_chrdev"
  /\ UNCHANGED <<id, majorNumber, dummyClass, dummyDevice, numberOpens, message,
                 ret, kern, calls, ctx, files, reported, loads, writes>>

InitRegisterChrdev ==
  /\ mod = "register_chrdev"
  /\ \E r \in (Majors \ kern.chrdevs) \cup RegisterErrors :
       LET s == KRegisterChrdev(Here, r) IN
       /\ majorNumber' = r
       /\ kern' = s.kern
       /\ calls' = s.calls
       /\ IF r < 0
          THEN ret' = r /\ mod' = "failed"
          ELSE ret' = ret /\ mod' = "class_create"
  /\ UNCHANGED <<id, device_name, dummyClass, dummyDevice, numberOpens, message,
                 ctx, files, reported, loads, writes>>

\* the clean-up of a failed class_create
RollbackClass(s) == KUnregisterChrdev(s, majorNumber)

InitClassCreate ==
  /\ mod = "class_create"
  /\ \E r \in (ClassPtrs \ kern.classes) \cup ClassErrors :
       LET s == KClassCreate(Here, r)
           f == RollbackClass(s) IN
       /\ dummyClass' = r
       /\ IF IS_ERR(r)
          THEN kern' = f.kern /\ calls' = f.calls /\ ret' = PTR_ERR(r) /\ mod' = "failed"
          ELSE kern' = s.kern /\ calls' = s.calls /\ ret' = ret /\ mod' = "device_create"
  /\ UNCHANGED <<id, device_name, majorNumber, dummyDevice, numberOpens, message,
                 ctx, files, reported, loads, writes>>

\* a clean-up in acquisition order: the number first, the class second
RollbackDeviceForward(s) == KClassDestroy(KUnregisterChrdev(s, majorNumber), dummyClass)

\* a clean-up that forgets class_destroy
RollbackDeviceLeak(s) == KUnregisterChrdev(s, majorNumber)

\* the clean-up of a failed device_create
RollbackDevice(s) == KUnregisterChrdev(KClassDestroy(s, dummyClass), majorNumber)

InitDeviceCreate ==
  /\ mod = "device_create"
  /\ \E r \in (DevicePtrs \ {d.ptr : d \in kern.devices}) \cup DeviceErrors :
       LET s == KDeviceCreate(Here, dummyClass, MKDEV(majorNumber, 0), r)
           f == RollbackDevice(s) IN
       /\ dummyDevice' = r
       /\ IF IS_ERR(r)
          THEN kern' = f.kern /\ calls' = f.calls /\ ret' = PTR_ERR(r) /\ mod' = "failed"
          ELSE kern' = s.kern /\ calls' = s.calls /\ ret' = 0 /\ mod' = "live"
  /\ UNCHANGED <<id, device_name, majorNumber, dummyClass, numberOpens, message,
                 ctx, files, reported, loads, writes>>

(***************************************************************************)
(* dummycdd_exit, one step per kernel call.  rmmod runs it on a loaded     *)
(* module that no file operation is using.                                 *)
(***************************************************************************)
ExitStep(s, next) ==
  /\ kern' = s.kern
  /\ calls' = s.calls
  /\ mod' = next
  /\ UNCHANGED <<statics, ret, ctx, files, reported, loads, writes>>

ExitDeviceDestroy ==
  /\ mod = "live"
  /\ Idle
  /\ files = 0
  /\ ExitStep(KDeviceDestroy(Here, dummyClass, MKDEV(majorNumber, 0)), "class_unregister")

\* the number released where the class should be
ExitClassUnregisterSwapped ==
  /\ mod = "class_unregister"
  /\ ExitStep(KUnregisterChrdev(Here, majorNumber), "class_destroy")

ExitClassUnregister ==
  /\ mod = "class_unregister"
  /\ ExitStep(KClassUnregister(Here, dummyClass), "class_destroy")

\* class_destroy(dummyClass) after class_unregister(dummyClass): when the class
\* is no longer live this call works on a released object, and the build may
\* carry on or stop in a kernel oops
ExitClassDestroy ==
  /\ mod = "class_destroy"
  /\ \/ ExitStep(KClassDestroy(Here, dummyClass), "unregister_chrdev")
     \/ /\ dummyClass # 0 /\ ~IS_ERR(dummyClass) /\ dummyClass \notin kern.classes
        /\ ExitStep(KClassDestroy(Here, dummyClass), "oops")

ExitUnregisterChrdev ==
  /\ mod = "unregister_chrdev"
  /\ ExitStep(KUnregisterChrdev(Here, majorNumber), "exited")

(***************************************************************************)
(* The file operations.  The VFS calls them on an open file of a loaded    *)
(* module: write and release need a file that open returned.               *)
(***************************************************************************)
\* the byte at offset k of the user buffer with base b
UserByte(b, k) == b + (k % 26)

\* a copy that always reads from the start of the user buffer
CopyFromUserNoOffset(msg, b, valid, off, n) ==
  LET copied == Max(0, Min(n, valid)) IN
  [j \in 0..(MessageSize - 1) |->
     IF j < copied THEN UserByte(b, j)
     ELSE IF j < n THEN 0
     ELSE msg[j]]

\* copy_from_user(message, buffer + off, n) on a user buffer readable up to
\* offset valid: the bytes copied before the fault, the rest of the n zeroed
CopyFromUser(msg, b, valid, off, n) ==
  LET copied == Max(0, Min(n, valid - off)) IN
  [j \in 0..(MessageSize - 1) |->
     IF j < copied THEN UserByte(b, off + j)
     ELSE IF j < n THEN 0
     ELSE msg[j]]

\* the bytes "%s" prints from message: up to the first NUL, all of it if none
CString(msg) ==
  LET nuls == {j \in 0..(MessageSize - 1) : msg[j] = 0}
      end  == IF nuls = {} THEN MessageSize
              ELSE CHOOSE j \in nuls : \A k \in nuls : j <= k
  IN [j \in 1..end |-> msg[j - 1]]

\* whether "%s" runs off the end of message[]
Unterminated(msg) == \A j \in 0..(MessageSize - 1) : msg[j] # 0

\* calls of dev_open begun so far in this load
OpensBegun == Len(reported) + Cardinality({t \in Threads : ctx[t].pc \in {"open_store", "open_printk"}})

FileStep(t, c) ==
  /\ ctx' = [ctx EXCEPT ![t] = c]
  /\ UNCHANGED <<mod, id, device_name, majorNumber, dummyClass, dummyDevice, ret,
                 kern, calls, loads>>

\* dev_open: numberOpens++ reads numberOpens ...
OpenLoad(t) ==
  /\ mod = "live"
  /\ ctx[t].pc = "idle"
  /\ OpensBegun < MaxOpens
  /\ FileStep(t, [ctx[t] EXCEPT !.pc = "open_store", !.reg = numberOpens])
  /\ UNCHANGED <<numberOpens, message, files, reported, writes>>

\* ... and stores the sum
OpenStore(t) ==
  /\ ctx[t].pc = "open_store"
  /\ numberOpens' = IntInc(ctx[t].reg)
  /\ FileStep(t, [ctx[t] EXCEPT !.pc = "open_printk"])
  /\ UNCHANGED <<message, files, reported, writes>>

\* an open that also clears the holding buffer
OpenPrintkClears(t) ==
  /\ ctx[t].pc = "open_printk"
  /\ reported' = Append(reported, numberOpens)
  /\ files' = files + 1
  /\ message' = ZeroMessage
  /\ FileStep(t, [ctx[t] EXCEPT !.pc = "done", !.ret = 0])
  /\ UNCHANGED <<numberOpens, writes>>

\* printk("... opened %d time(s)", numberOpens); return 0
OpenPrintk(t) ==
  /\ ctx[t].pc = "open_printk"
  /\ reported' = Append(reported, numberOpens)
  /\ files' = files + 1
  /\ FileStep(t, [ctx[t] EXCEPT !.pc = "done", !.ret = 0])
  /\ UNCHANGED <<numberOpens, message, writes>>

\* a release that takes the session back
ReleaseCounts(t) ==
  /\ mod = "live"
  /\ ctx[t].pc = "idle"
  /\ files > 0
  /\ files' = files - 1
  /\ numberOpens' = numberOpens - 1
  /\ FileStep(t, [ctx[t] EXCEPT !.pc = "done", !.ret = 0])
  /\ UNCHANGED <<message, reported, writes>>

\* dev_release: a printk; return 0
Release(t) ==
  /\ mod = "live"
  /\ ctx[t].pc = "idle"
  /\ files > 0
  /\ files' = files - 1
  /\ FileStep(t, [ctx[t] EXCEPT !.pc = "done", !.ret = 0])
  /\ UNCHANGED <<numberOpens, message, reported, writes>>

\* dev_write(filep, buffer, len, offset) is entered: i = 0
WriteCall(t, len, b, valid) ==
  /\ mod = "live"
  /\ ctx[t].pc = "idle"
  /\ files > 0
  /\ writes < MaxWrites
  /\ writes' = writes + 1
  /\ FileStep(t, [IdleCtx EXCEPT !.pc = "w_loop", !.len = len, !.buffer = b,
                                 !.valid = valid, !.i = 0])
  /\ UNCHANGED <<numberOpens, message, files, reported>>

\* a loop that forgets to advance
StrideNone == 0 * MessageSize

\* the stride of the loop
Stride == MessageSize

\* a copy that takes one byte more for a NUL when the slice is the last
CopyCountPlusNul(remainder) == IF remainder > MessageSize THEN MessageSize ELSE remainder + 1

\* a copy that always takes a full slice
CopyCountFull(remainder) == MessageSize

\* the count passed to copy_from_user for a remainder
CopyCount(remainder) == IF remainder > MessageSize THEN MessageSize ELSE remainder

\* i < len holds: remainder = len - i, and the copy of one slice
WriteCopy(t) ==
  /\ ctx[t].pc = "w_loop"
  /\ ctx[t].i < ctx[t].len
  /\ LET remainder == ctx[t].len - ctx[t].i
         n == CopyCount(remainder) IN
     /\ message' = CopyFromUser(message, ctx[t].buffer, ctx[t].valid, ctx[t].i, n)
     /\ FileStep(t, [ctx[t] EXCEPT !.pc = "w_printk", !.remainder = remainder, !.n = n])
  /\ UNCHANGED <<numberOpens, files, reported, writes>>

\* printk("%s", message); i += sizeof(message).  With no NUL in message[] the
\* "%s" reads on past the array: over is how many bytes it prints from there
WritePrintk(t) ==
  /\ ctx[t].pc = "w_printk"
  /\ \E over \in 0..MaxOverrun :
       /\ over > 0 => Unterminated(message)
       /\ FileStep(t, [ctx[t] EXCEPT !.pc = "w_loop",
                                     !.i = @ + Stride,
                                     !.chunks = @ + 1,
                                     !.out = [k |-> ctx[t].chunks, off |-> ctx[t].i,
                                              n |-> ctx[t].n, text |-> CString(message),
                                              over |-> over]])
  /\ UNCHANGED <<numberOpens, message, files, reported, writes>>

\* a write that reports only what copy_from_user could read
WriteResultShort(c) == Min(c.len, c.valid)

\* what dev_write returns: len as an ssize_t (the VFS passes no len above
\* MAX_RW_COUNT, so the conversion keeps the value)
WriteResult(c) == c.len

\* i < len fails: return len
WriteReturn(t) ==
  /\ ctx[t].pc = "w_loop"
  /\ ~(ctx[t].i < ctx[t].len)
  /\ FileStep(t, [ctx[t] EXCEPT !.pc = "w_done", !.ret = WriteResult(ctx[t])])
  /\ UNCHANGED <<numberOpens, message, files, reported, writes>>

\* the system call returns to its caller
Return(t) ==
  /\ ctx[t].pc \in {"done", "w_done"}
  /\ FileStep(t, IdleCtx)
  /\ UNCHANGED <<numberOpens, message, files, reported, writes>>

(***************************************************************************)
(* The specifications.                                                     *)
(***************************************************************************)
Init ==
  /\ mod = "unloaded"
  /\ id = 1
  /\ device_name = <<>>
  /\ majorNumber = 0
  /\ dummyClass = 0
  /\ dummyDevice = 0
  /\ numberOpens = 0
  /\ message = ZeroMessage
  /\ ret = 0
  /\ kern = NoKern
  /\ calls = <<>>
  /\ ctx = [t \in Threads |-> IdleCtx]
  /\ files = 0
  /\ reported = <<>>
  /\ loads = 0
  /\ writes = 0

Lifecycle ==
  \/ InitSprintf
  \/ InitRegisterChrdev
  \/ InitClassCreate
  \/ InitDeviceCreate
  \/ ExitDeviceDestroy
  \/ ExitClassUnregister
  \/ ExitClassDestroy
  \/ ExitUnregisterChrdev

\* the one execution context of the sequential specifications
Caller == 1

\* lengths and readable prefixes of the writes of Spec
LifeLens == {0, 1, MaxLen}

\* readable prefixes of a user buffer of len bytes: all of it, none of it (a
\* bad pointer), or a fault after the first byte or inside the second slice
Valids(len) == {v \in {0, 1, MessageSize + 1, len} : v <= len}

\* the module lifecycle over every id, with sequential file operations
Next ==
  \/ \E v \in Ids : Load(v)
  \/ Lifecycle
  \/ OpenLoad(Caller)
  \/ OpenStore(Caller)
  \/ OpenPrintk(Caller)
  \/ Release(Caller)
  \/ \E len \in LifeLens : WriteCall(Caller, len, 97, len)
  \/ WriteCopy(Caller)
  \/ WritePrintk(Caller)
  \/ WriteReturn(Caller)
  \/ Return(Caller)

Spec == Init /\ [][Next]_vars

\* one load with the default id, and one caller that opens the device once
LoadOnce == loads = 0 /\ Load(1)

OpenOnce == reported = <<>> /\ OpenLoad(Caller)

\* sequential writes of every length up to MaxLen, from every user buffer
NextWrite ==
  \/ LoadOnce
  \/ Lifecycle
  \/ OpenOnce
  \/ OpenStore(Caller)
  \/ OpenPrintk(Caller)
  \/ Release(Caller)
  \/ \E len \in 0..MaxLen, b \in Sources : \E valid \in Valids(len) :
       WriteCall(Caller, len, b, valid)
  \/ WriteCopy(Caller)
  \/ WritePrintk(Caller)
  \/ WriteReturn(Caller)
  \/ Return(Caller)

SpecWrite == Init /\ [][NextWrite]_vars

(***************************************************************************)
(* Properties of the lifecycle.                                            *)
(***************************************************************************)
Acquisitions == {"register_chrdev", "class_create", "device_create"}

Releases == {"unregister_chrdev", "class_unregister", "device_destroy"}

\* whether an acquisition call returned a resource
Succeeded(c) == IF c.fn = "register_chrdev" THEN c.res >= 0 ELSE ~IS_ERR(c.res)

\* the positions in calls of the calls to fn
Positions(fn) == {k \in 1..Len(calls) : calls[k].fn = fn}

\* the order of the three acquisitions
AcquisitionOrder == <<"register_chrdev", "class_create", "device_create">>

\* C1: whenever dummycdd_init has returned an error, no device number, class or
\* device node is registered, however many loads failed before; so every
\* init attempt, the first and each later one, starts with nothing registered.
C1_FailedInitLeavesNothing ==
  mod \in {"failed", "sprintf", "register_chrdev"} => kern = NoKern

\* a second load has failed at device_create, after the class and the number were taken
C1_Witness ==
  /\ mod = "failed"
  /\ loads = 2
  /\ Len(calls) >= 3
  /\ calls[3].fn = "device_create"
  /\ IS_ERR(calls[3].res)

\* C2 (as claimed): in the calls of one load, every release is made on a
\* resource that is registered at that moment, and no resource is released twice.
C2_ReleasedOnceAndLive ==
  \A k \in 1..Len(calls) :
    calls[k].fn \in Releases =>
      /\ calls[k].live
      /\ \A j \in 1..(k - 1) : ~(calls[j].fn = calls[k].fn /\ calls[j].arg = calls[k].arg)

\* C3: dummycdd_exit after a successful init releases the device node first,
\* the class after it and the device number last: no class release precedes a
\* node release, no number release precedes a class release, and when it has
\* returned all three have been released and nothing is registered.
C3_ShutdownOrder ==
  ret = 0 /\ mod \in {"class_unregister", "class_destroy", "unregister_chrdev", "oops", "exited"} =>
    /\ \A c \in Positions("class_unregister"), d \in Positions("device_destroy") : d < c
    /\ \A n \in Positions("unregister_chrdev"), c \in Positions("class_unregister") : c < n
    /\ Positions("device_destroy") # {}
    /\ \A d \in Positions("device_destroy") : calls[d].live
    /\ mod = "exited" =>
         /\ \A fn \in Releases : \E k \in Positions(fn) : calls[k].live
         /\ kern = NoKern

C3_Witness ==
  /\ mod = "exited"
  /\ Positions("device_destroy") # {}
  /\ Positions("class_unregister") # {}
  /\ Positions("unregister_chrdev") # {}

\* C4: dummycdd_init attempts register_chrdev, class_create and device_create
\* in that order, each only after the one before succeeded; it returns 0
\* exactly when all three succeeded and otherwise the error of the first step
\* that failed, with no later step attempted; a failed register_chrdev is
\* followed by no release.
C4_InitOrderAndResult ==
  LET acq == SelectSeq(calls, LAMBDA c : c.fn \in Acquisitions)
      returned == mod \in {"failed", "live"}
  IN /\ Len(acq) <= 3
     /\ \A k \in 1..Len(acq) : acq[k].fn = AcquisitionOrder[k]
     /\ \A k \in 1..(Len(acq) - 1) : Succeeded(acq[k])
     /\ returned =>
          /\ Len(acq) >= 1
          /\ (ret = 0) <=> (Len(acq) = 3 /\ Succeeded(acq[3]))
          /\ (ret = 0) <=> (mod = "live")
          /\ ret # 0 => ~Succeeded(acq[Len(acq)]) /\ ret = acq[Len(acq)].res /\ ret < 0
          /\ ~Succeeded(acq[1]) => Len(calls) = 1

\* class_create failed: init returned its error and never called device_create
C4_Witness ==
  /\ mod = "failed"
  /\ Len(calls) >= 2
  /\ calls[2].fn = "class_create"
  /\ ret = calls[2].res
  /\ ret = -17

\* C5 (as claimed): between operations each of majorNumber, dummyClass and
\* dummyDevice is unset (0, NULL) or names a resource that is registered now.
C5_HandlesUnsetOrLive ==
  mod \in {"failed", "live", "exited"} /\ Idle =>
    /\ majorNumber = 0 \/ majorNumber \in kern.chrdevs
    /\ dummyClass = 0 \/ dummyClass \in kern.classes
    /\ dummyDevice = 0 \/ \E d \in kern.devices : d.ptr = dummyDevice

(***************************************************************************)
(* Properties of dev_write.                                                *)
(***************************************************************************)
\* ceil(len / MessageSize)
ChunksOf(len) == (len + MessageSize - 1) \div MessageSize

\* C6: dev_write returns exactly len, never an error and never a short count,
\* also when copy_from_user could not read some or any of a slice.
C6_WriteReturnsLen ==
  \A t \in Threads :
    ctx[t].pc = "w_done" => ctx[t].ret = ctx[t].len /\ ctx[t].ret >= 0

\* a write of 2C+5 bytes has returned although the user buffer faulted after its first byte
C6_Witness ==
  /\ ctx[Caller].pc = "w_done"
  /\ ctx[Caller].len = MaxLen
  /\ ctx[Caller].valid = 1
  /\ ctx[Caller].ret = MaxLen

\* C7: with C = sizeof(message), a write of len bytes emits ceil(len / C)
\* chunks, none for len = 0; chunk k (from 0) copies min(len - k*C, C) bytes
\* from offset k*C of the user buffer to the start of message, so every chunk
\* but the last has C bytes and the last has len - (n-1)*C; len = 2C+5 gives
\* three chunks of C, C and 5 bytes.
C7_Chunking ==
  \A t \in Threads :
    LET c == ctx[t]
        C == MessageSize
        total == ChunksOf(c.len)
    IN /\ c.pc = "w_done" => c.chunks = total
       /\ c.pc = "w_done" /\ c.len = 0 => c.out = NoEmit
       /\ c.pc = "w_done" /\ c.len = 2 * C + 5 => c.chunks = 3 /\ c.out.n = 5
       /\ c.pc \in {"w_loop", "w_printk", "w_done"} => c.chunks <= total
       \* the slice just copied, before it is printed
       /\ c.pc = "w_printk" =>
            /\ c.i = c.chunks * C
            /\ c.n = Min(c.len - c.chunks * C, C)
            /\ \A j \in 0..(c.n - 1) :
                 message[j] = IF c.chunks * C + j < c.valid
                              THEN UserByte(c.buffer, c.chunks * C + j) ELSE 0
       \* the chunk just printed
       /\ c.out.k >= 0 =>
            /\ c.out.k = c.chunks - 1
            /\ c.out.off = c.out.k * C
            /\ c.out.n = Min(c.len - c.out.k * C, C)
            /\ c.out.k < total - 1 => c.out.n = C
            /\ c.out.k = total - 1 => c.out.n = c.len - (total - 1) * C

\* the 2C+5 write has returned after three chunks, the last of 5 bytes
C7_Witness ==
  /\ ctx[Caller].pc = "w_done"
  /\ ctx[Caller].len = 2 * MessageSize + 5
  /\ ctx[Caller].chunks = 3
  /\ ctx[Caller].out.k = 2
  /\ ctx[Caller].out.n = 5

\* C8 (as claimed): what is printed for a short chunk (fewer than C bytes
\* copied) is made of the bytes copied for that chunk only: it prints no
\* byte of message at or beyond offset remainder, and nothing past message.
C8_NoStaleTail ==
  \A t \in Threads :
    ctx[t].out.k >= 0 /\ ctx[t].out.n < MessageSize =>
      /\ Len(ctx[t].out.text) <= ctx[t].out.n
      /\ ctx[t].out.over = 0

(***************************************************************************)
(* Properties of dev_open, dev_release and the device name.                *)
(***************************************************************************)
\* C9: from a fresh load, the N-th of the sequential open calls reports N, and
\* release calls among them leave the counter alone: whenever no open is in
\* progress the counter is the number of opens made.
C9_SessionCounting ==
  /\ \A k \in 1..Len(reported) : reported[k] = k
  /\ ctx[Caller].pc \notin {"open_store", "open_printk"} => numberOpens = Len(reported)

\* three opens have reported 1, 2, 3 with two releases among them
C9_Witness ==
  /\ reported = <<1, 2, 3>>
  /\ files = 1
  /\ numberOpens = 3

DigitValue(ch) == CHOOSE d \in 0..9 : Digit(d) = ch

RECURSIVE DecimalValue(_)
\* the number a sequence of decimal digits denotes
DecimalValue(ds) ==
  IF ds = <<>> THEN 0
  ELSE 10 * DecimalValue(SubSeq(ds, 1, Len(ds) - 1)) + DigitValue(ds[Len(ds)])

\* ds is the decimal form of v: an optional minus sign, then digits with no
\* leading zero, which denote v
IsDecimalOf(ds, v) ==
  LET digits == IF v < 0 THEN Tail(ds) ELSE ds IN
  /\ Len(digits) >= 1
  /\ v < 0 => ds[1] = "-"
  /\ \A k \in 1..Len(digits) : digits[k] \in {Digit(d) : d \in 0..9}
  /\ Len(digits) > 1 => digits[1] # "0"
  /\ DecimalValue(digits) = (IF v < 0 THEN -v ELSE v)

NameSet == mod \notin {"unloaded", "sprintf"}

\* C10: once dummycdd_init has formatted it, device_name is the base name
\* followed by the decimal form of id ("dummycdd1" for 1, "dummycdd42" for
\* 42), and no later step of init, no open, write or release and no step of
\* exit changes it.
C10_DeviceName ==
  /\ [](NameSet =>
          /\ Len(device_name) > Len(DEVICE_NAME)
          /\ SubSeq(device_name, 1, Len(DEVICE_NAME)) = DEVICE_NAME
          /\ IsDecimalOf(SubSeq(device_name, Len(DEVICE_NAME) + 1, Len(device_name)), id)
          /\ id = 1 => device_name = DEVICE_NAME \o <<"1">>
          /\ id = 42 => device_name = DEVICE_NAME \o <<"4", "2">>)
  /\ [][NameSet /\ mod' # "sprintf" => device_name' = device_name /\ id' = id]_vars

\* the module with id 42 was opened, written to and unloaded under its name
C10_Witness ==
  /\ mod = "exited"
  /\ id = 42
  /\ device_name = <<"d", "u", "m", "m", "y", "c", "d", "d", "4", "2">>
  /\ reported # <<>>
  /\ writes > 0

(***************************************************************************)
(* Properties of the rollback in dummycdd_init.                            *)
(***************************************************************************)
\* C11: a failed step of dummycdd_init releases what was acquired before it in
\* reverse order before init returns: after a failed device_create the class
\* is released first and the device number second, after a failed
\* class_create the device number is released; each release meets a live
\* resource, and nothing else is released.
C11_RollbackOrder ==
  mod = "failed" =>
    LET fns == [k \in 1..Len(calls) |-> calls[k].fn] IN
    /\ Len(calls) = 5 =>
         /\ fns = <<"register_chrdev", "class_create", "device_create",
                    "class_unregister", "unregister_chrdev">>
         /\ IS_ERR(calls[3].res)
         /\ calls[4].arg = calls[2].res /\ calls[4].live
         /\ calls[5].arg = calls[1].res /\ calls[5].live
    /\ Len(calls) = 3 =>
         /\ fns = <<"register_chrdev", "class_create", "unregister_chrdev">>
         /\ IS_ERR(calls[2].res)
         /\ calls[3].arg = calls[1].res /\ calls[3].live
    /\ Len(calls) = 1 => fns = <<"register_chrdev">> /\ calls[1].res < 0
    /\ Len(calls) \in {1, 3, 5}
    /\ Len(calls) = 5 <=> (dummyDevice # 0)
    /\ Len(calls) >= 3 <=> (dummyClass # 0)

\* device_create failed and init returned after releasing the class, then the number
C11_Witness ==
  /\ mod = "failed"
  /\ Len(calls) = 5
  /\ calls[4].fn = "class_unregister"
  /\ calls[5].fn = "unregister_chrdev"
  /\ ret = calls[3].res

(***************************************************************************)
(* Concurrent callers: the file operations take no lock, so the steps of   *)
(* two calls interleave.                                                   *)
(***************************************************************************)
\* the user buffer each execution context writes from
BufferOf(t) == IF t = Caller THEN 97 ELSE 65

\* lengths of the concurrent writes: a short one, and one of two slices
ConcLens == {1, MessageSize + 1}

\* as many opens, and as many writes, as there are execution contexts
ConcOpen(t) == OpensBegun < Cardinality(Threads) /\ OpenLoad(t)

ConcWrite(t, len) == writes < Cardinality(Threads) /\ WriteCall(t, len, BufferOf(t), len)

NextConc ==
  \/ LoadOnce
  \/ Lifecycle
  \/ \E t \in Threads : ConcOpen(t)
  \/ \E t \in Threads : OpenStore(t)
  \/ \E t \in Threads : OpenPrintk(t)
  \/ \E t \in Threads : Release(t)
  \/ \E t \in Threads, len \in ConcLens : ConcWrite(t, len)
  \/ \E t \in Threads : WriteCopy(t)
  \/ \E t \in Threads : WritePrintk(t)
  \/ \E t \in Threads : WriteReturn(t)
  \/ \E t \in Threads : Return(t)

SpecConc == Init /\ [][NextConc]_vars

\* the byte writer t copied for offset j of the chunk it printed last
OwnByte(t, j) == UserByte(ctx[t].buffer, ctx[t].out.off + j)

\* the bytes of the user buffer of u
BytesOf(u) == {UserByte(BufferOf(u), k) : k \in 0..(MaxLen - 1)}

\* the offsets of the chunk t printed last that it had copied itself
Fresh(t) == 0..(Min(ctx[t].out.n, Len(ctx[t].out.text)) - 1)

\* offset j of the chunk t printed holds a byte another writer copied
Foreign(t, j) ==
  /\ ctx[t].out.text[j + 1] # OwnByte(t, j)
  /\ \E u \in Threads \ {t} : ctx[t].out.text[j + 1] \in BytesOf(u)

\* C12: concurrent writers race on message: a writer's chunk can hold, at an
\* offset the writer had copied itself, a byte the other writer copied in
\* between.  In every state such an offset holds the writer's own byte or
\* one of the other writer's buffer, the latter only when a second write
\* has begun.
C12_SharedBufferRace ==
  \A t \in Threads :
    ctx[t].out.k >= 0 =>
      \A j \in Fresh(t) :
        \/ ctx[t].out.text[j + 1] = OwnByte(t, j)
        \/ Foreign(t, j) /\ writes >= 2

\* the interleaving of the claim: a chunk printed with the other writer's byte
C12_Witness ==
  \E t \in Threads :
    /\ ctx[t].out.k >= 0
    /\ \E j \in Fresh(t) : Foreign(t, j)

\* C13 (as claimed): when N open calls have completed and none is in
\* progress, numberOpens is N, whatever the interleaving of the openers.
C13_EveryOpenCounts ==
  (\A t \in Threads : ctx[t].pc \notin {"open_store", "open_printk"}) =>
    numberOpens = Len(reported)

(***************************************************************************)
(* Termination of dev_write.  A call that is running is scheduled: each of *)
(* its steps, once enabled, is eventually taken.                           *)
(***************************************************************************)
NextTerm ==
  \/ LoadOnce
  \/ Lifecycle
  \/ OpenOnce
  \/ OpenStore(Caller)
  \/ OpenPrintk(Caller)
  \/ Release(Caller)
  \/ \E len \in 0..MaxLen : WriteCall(Caller, len, 97, len)
  \/ WriteCopy(Caller)
  \/ WritePrintk(Caller)
  \/ WriteReturn(Caller)
  \/ Return(Caller)

SpecTerm ==
  /\ Init
  /\ [][NextTerm]_vars
  /\ WF_vars(WriteCopy(Caller))
  /\ WF_vars(WritePrintk(Caller))
  /\ WF_vars(WriteReturn(Caller))

InWrite(c) == c.pc \in {"w_loop", "w_printk"}

\* C14: every call of dev_write returns: each iteration of the slice loop
\* advances i by sizeof(message), strictly upwards, i stays below
\* len + sizeof(message), so the loop makes ceil(len / sizeof(message))
\* iterations and the call reaches its return.
C14_WriteTerminates ==
  /\ InWrite(ctx[Caller]) ~> (ctx[Caller].pc = "w_done")
  /\ [](InWrite(ctx[Caller]) =>
          /\ ctx[Caller].i >= 0
          /\ ctx[Caller].i < ctx[Caller].len + MessageSize
          /\ ctx[Caller].i = ctx[Caller].chunks * MessageSize
          /\ ctx[Caller].chunks <= ChunksOf(ctx[Caller].len))
  /\ [][ctx[Caller].pc = "w_printk" /\ ctx'[Caller] # ctx[Caller] =>
          /\ ctx'[Caller].i = ctx[Caller].i + MessageSize
          /\ ctx'[Caller].i > ctx[Caller].i
          /\ ctx'[Caller].len = ctx[Caller].len]_vars

\* the longest write has left its loop after three iterations
C14_Witness ==
  /\ ctx[Caller].pc = "w_done"
  /\ ctx[Caller].len = MaxLen
  /\ ctx[Caller].i = 3 * MessageSize
  /\ ctx[Caller].i >= ctx[Caller].len

(***************************************************************************)
(* A module that has been open for long: the state after a load with the   *)
(* default id and INT_MAX - 1 sequential calls of open, the last of them   *)
(* not yet released.  (reported holds the reports made from here on.)      *)
(***************************************************************************)
InitLate ==
  /\ mod = "live"
  /\ id = 1
  /\ device_name = Sprintf_name(1)
  /\ majorNumber = 254
  /\ dummyClass = 4096
  /\ dummyDevice = 8192
  /\ numberOpens = INT_MAX - 1
  /\ message = ZeroMessage
  /\ ret = 0
  /\ kern = [chrdevs |-> {254}, classes |-> {4096},
             devices |-> {[ptr |-> 8192, cls |-> 4096, devt |-> MKDEV(254, 0)]}]
  /\ calls = <<Call("register_chrdev", 0, 254, FALSE),
               Call("class_create", 0, 4096, FALSE),
               Call("device_create", MKDEV(254, 0), 8192, FALSE)>>
  /\ ctx = [t \in Threads |-> IdleCtx]
  /\ files = 1
  /\ reported = <<>>
  /\ loads = 1
  /\ writes = 0

NextLate ==
  \/ OpenLoad(Caller)
  \/ OpenStore(Caller)
  \/ OpenPrintk(Caller)
  \/ Release(Caller)
  \/ \E len \in LifeLens : WriteCall(Caller, len, 97, len)
  \/ WriteCopy(Caller)
  \/ WritePrintk(Caller)
  \/ WriteReturn(Caller)
  \/ Return(Caller)

SpecLate == InitLate /\ [][NextLate]_vars

\* C15 (as claimed): within one load no open, write or release ever makes
\* numberOpens smaller, however many opens there have been.
C15_CounterNeverDecreases == [][numberOpens' >= numberOpens]_vars

(***************************************************************************)
(* Bounds of the copy in dev_write.                                        *)
(***************************************************************************)
\* C16: every copy of the slice loop is in bounds: it copies at least 1 and
\* at most sizeof(message) bytes, to message from its offset 0 on (what lies
\* at offset n and beyond is left as it was, and message keeps its size), and
\* the bytes it reads, [i, i + n), lie inside [0, len).
C16_CopyInBounds ==
  /\ [](\A t \in Threads :
          ctx[t].pc = "w_printk" =>
            /\ ctx[t].n >= 1
            /\ ctx[t].n <= MessageSize
            /\ ctx[t].i >= 0
            /\ ctx[t].i + ctx[t].n <= ctx[t].len
            /\ ctx[t].n <= ctx[t].remainder)
  /\ [][\A t \in Threads :
          ctx[t].pc = "w_loop" /\ ctx'[t].pc = "w_printk" =>
            /\ DOMAIN message' = 0..(MessageSize - 1)
            /\ \A j \in ctx'[t].n..(MessageSize - 1) : message'[j] = message[j]
            /\ ctx'[t].valid >= ctx'[t].len =>
                 \A j \in 0..(ctx'[t].n - 1) : message'[j] # 0]_vars

\* the second slice of the longest write: exactly sizeof(message) bytes from offset C
C16_Witness ==
  /\ ctx[Caller].pc = "w_printk"
  /\ ctx[Caller].len = MaxLen
  /\ ctx[Caller].i = MessageSize
  /\ ctx[Caller].n = MessageSize
  /\ ctx[Caller].valid = MaxLen

(***************************************************************************)
(* What the file operations leave alone.                                   *)
(***************************************************************************)
handles == <<majorNumber, dummyClass, dummyDevice>>

\* a step of dev_write, of dev_open, of dev_release by t
WriteStep(t) ==
  /\ ctx'[t] # ctx[t]
  /\ ctx[t].pc \in {"w_loop", "w_printk"} \/ ctx'[t].pc = "w_loop"

OpenStep(t) ==
  /\ ctx'[t] # ctx[t]
  /\ ctx[t].pc \in {"open_store", "open_printk"} \/ ctx'[t].pc = "open_store"

ReleaseStep(t) == ctx[t].pc = "idle" /\ ctx'[t].pc = "done"

\* C17: dev_write changes neither numberOpens nor the three handles; dev_open
\* changes neither message nor the handles; dev_release changes none of
\* numberOpens, message and the handles.
C17_FileOperationFrames ==
  [][\A t \in Threads :
       /\ WriteStep(t) => numberOpens' = numberOpens /\ handles' = handles
       /\ OpenStep(t) => message' = message /\ handles' = handles
       /\ ReleaseStep(t) =>
            numberOpens' = numberOpens /\ message' = message /\ handles' = handles]_vars

\* open, write and release have all run on a live module whose buffer is written
C17_Witness ==
  /\ mod = "live"
  /\ ctx[Caller].pc = "done"
  /\ numberOpens = 2
  /\ files = 1
  /\ writes = 2
  /\ message # ZeroMessage
  /\ majorNumber \in kern.chrdevs
  /\ dummyClass \in kern.classes
  /\ \E d \in kern.devices : d.ptr = dummyDevice

(***************************************************************************)
(* The name buffer, over ids at every number of digits of an int.          *)
(***************************************************************************)
RECURSIVE Pow10(_)
Pow10(k) == IF k = 0 THEN 1 ELSE 10 * Pow10(k - 1)

\* ids: 0, the int extremes, and the powers of ten and their predecessors
\* with either sign
NameIds ==
  {0, INT_MAX, (-INT_MAX) - 1}
    \cup {sg * Pow10(k) : sg \in {1, -1}, k \in 0..9}
    \cup {sg * (Pow10(k) - 1) : sg \in {1, -1}, k \in 1..9}

NextName ==
  \/ \E v \in NameIds : loads = 0 /\ Load(v)
  \/ Lifecycle

SpecName == Init /\ [][NextName]_vars

\* C18: for every int id, negative ones included, the formatted name with its
\* terminating NUL fits device_name[32]: the base name, at most a minus sign
\* and ten digits.
C18_NameFitsBuffer ==
  NameSet =>
    /\ Len(device_name) + 1 <= NameCapacity
    /\ Len(device_name) <= Len(DEVICE_NAME) + 11
    /\ Len(device_name) >= Len(DEVICE_NAME) + 1
    /\ (id < 0) <=> (device_name[Len(DEVICE_NAME) + 1] = "-")
    /\ id >= 0 => Len(device_name) <= Len(DEVICE_NAME) + 10

\* the longest name, that of INT_MIN: 8 + 11 characters
C18_Witness ==
  /\ mod = "live"
  /\ id = (-INT_MAX) - 1
  /\ device_name = DEVICE_NAME \o <<"-", "2", "1", "4", "7", "4", "8", "3", "6", "4", "8">>

====
